---- MODULE Spec2Model ----
(***************************************************************************)
(* A model of two parts of yDaemon:                                        *)
(*                                                                         *)
(*  - internal/events/filterUpdateManagementFee.go: HandleUpdateManagement *)
(*    Fee fans out one filterUpdateManagementFee goroutine per vault; the  *)
(*    goroutines insert into one sync.Map keyed "vaultAddress-blockNumber" *)
(*    and the caller, after wg.Wait(), reshapes it into                    *)
(*    vaultAddress -> blockNumber -> []TEventBlock.                        *)
(*  - computeVaultV3ForwardAPY (package apr).                              *)
(*  - package main: listenToSignals (the Telegram command loop) and        *)
(*    triggerInitializedStatus with the package-level initializedCounter.  *)
(*                                                                         *)
(* Strings are sequences of one-character strings, so that formatting and  *)
(* parsing of the map keys are computed and not assumed.                   *)
(***************************************************************************)
EXTENDS Integers, Sequences, FiniteSets, TLC

VARIABLES
    \* ---- inputs of HandleUpdateManagementFee and the chain data source
    vaults,        \* the addresses of the input vault map
    start,         \* the start argument (0: use each vault's activation)
    end,           \* the end argument: <<>> (nil: latest) or <<block>>
    activation,    \* per vault: TVault.Activation
    chainLogs,     \* per vault: the UpdateManagementFee logs on chain, in block order
    queryFails,    \* per vault: FilterUpdateManagementFee returns an error
    streamFailAt,  \* per vault: the stream fails after yielding that many entries
    \* ---- HandleUpdateManagementFee
    mainPc,        \* "loop" | "range" | "done"
    toSpawn,       \* vaults the range loop has not reached yet
    wg,            \* the WaitGroup counter
    asyncFeeMap,   \* the sync.Map: key string -> []TEventBlock
    visited,       \* keys the Range callback was called for
    managementFeeForVaults, \* the map being built, returned at "done"
    \* ---- one filterUpdateManagementFee goroutine per vault
    taskPc,        \* "idle" | "query" | "next" | "store" | "exit" | "done"
    taskOpts,      \* the FilterOpts the goroutine was started with
    stream,        \* the entries the iterator holds
    pos,           \* how many entries the iterator has yielded
    loaded,        \* the result of asyncFeeMap.Load(eventKey)
    \* ---- history, for the properties only
    queries,       \* the log queries issued, in order
    inserted,      \* <<vault, record>> for every record a goroutine stored
    doneCount      \* per vault: how many times wg.Done() ran

VARIABLES
    \* ---- inputs of computeVaultV3ForwardAPY and its environment
    chainKnown,    \* env.GetChain(vault.ChainID) finds the chain
    oracleSet,     \* chain.APROracleContract.Address is not the zero address
    clientFails,   \* contracts.NewYVaultsV3APROracleCaller returns an error
    vaultKind,     \* vault.Kind
    totalAssets,   \* vault.LastTotalAssets: <<>> (nil) or <<amount>>
    useV2APR,      \* vault.Metadata.ShouldUseV2APR
    strategies,    \* allStrategiesForVault: address -> TStrategy
    \* ---- computeVaultV3ForwardAPY
    apyPc,         \* "start" | "oracle1" | "oracle2" | "emptyVault" | "normal" | "finish" | "done"
    oracleAPR,
    hasError,
    debtRatioAPR,
    ranged,        \* the strategies the range loop has passed
    forwardAPY,    \* the TForwardAPY returned at "done"
    \* ---- history, for the properties only
    calls,         \* the oracle calls made, in order, with their results
    contrib        \* per strategy: what its loop turn added to debtRatioAPR

VARIABLES
    \* ---- environment of listenToSignals
    telegramToken,             \* os.LookupEnv("TELEGRAM_BOT"): <<>> (not set) or <<token>>
    telegramWhitelistedUsers,  \* os.LookupEnv("TELEGRAM_WHITELIST"): <<>> or <<string>>
    botFails,                  \* tgbotapi.NewBotAPI returns an error
    tgSendOk,                  \* triggerTgMessage gets its message to the chat
    \* ---- listenToSignals
    listenPc,      \* "start" | "receive" | "returned" | "exited"
    handled,       \* how many updates the loop has taken from the channel
    update,        \* the update of the last loop turn
    reply,         \* what bot.Send sent in that turn: <<>> or <<text>>
    reachedSwitch, \* that turn got to switch update.Message.Command()
    restartNotice, \* the message handed to triggerTgMessage before os.Exit
    exitCode,      \* <<>> while the process runs, <<code>> after os.Exit
    \* ---- triggerInitializedStatus, one call per chain
    chains,              \* the package-level chains
    initializedCounter,  \* var initializedCounter = 0
    callPc,              \* per chain: "idle" | "store" | "message" | "done"
    callReg,             \* per chain: the value read by initializedCounter++
    reported             \* per chain: the count its status message shows (0: none yet)

evInputs == <<vaults, start, end, activation, chainLogs, queryFails, streamFailAt>>

evVars == <<evInputs, mainPc, toSpawn, wg, asyncFeeMap, visited,
            managementFeeForVaults, taskPc, taskOpts, stream, pos, loaded,
            queries, inserted, doneCount>>

apyInputs == <<chainKnown, oracleSet, clientFails, vaultKind, totalAssets,
               useV2APR, strategies>>

apyVars == <<apyInputs, apyPc, oracleAPR, hasError, debtRatioAPR, ranged,
             forwardAPY, calls, contrib>>

tgInputs == <<telegramToken, telegramWhitelistedUsers, botFails, tgSendOk>>

tgVars == <<tgInputs, listenPc, handled, update, reply, reachedSwitch,
            restartNotice, exitCode>>

initVars == <<chains, initializedCounter, callPc, callReg, reported>>

mainVars == <<tgVars, initVars>>

vars == <<evVars, apyVars, mainVars>>

----------------------------------------------------------------------------
(* Bounds of the model *)

MaxVaults == 2
MaxLogs == 2
MaxBlock == 2
AddrHexLen == 2

VaultAddrs == 1..MaxVaults
Blocks == 1..MaxBlock

----------------------------------------------------------------------------
(* Optional values, maps, sequences *)

None == <<>>
Some(x) == <<x>>

EmptyMap == <<>>
MapPut(m, k, v) == [x \in (DOMAIN m) \cup {k} |-> IF x = k THEN v ELSE m[x]]

RECURSIVE SeqsUpTo(_, _)
SeqsUpTo(S, n) ==
    IF n = 0 THEN {<<>>}
    ELSE LET shorter == SeqsUpTo(S, n - 1)
         IN  shorter \cup {Append(s, x) : s \in shorter, x \in S}

----------------------------------------------------------------------------
(* strconv.FormatUint / ParseUint, common.Address.Hex / HexToAddress,     *)
(* strings.Split                                                           *)

DecDigits == <<"0", "1", "2", "3", "4", "5", "6", "7", "8", "9">>
HexDigits == <<"0", "1", "2", "3", "4", "5", "6", "7", "8", "9",
               "a", "b", "c", "d", "e", "f">>

RECURSIVE Pow(_, _)
Pow(b, n) == IF n = 0 THEN 1 ELSE b * Pow(b, n - 1)

\* strconv.FormatUint(n, 10): no leading zeros, "0" for 0
RECURSIVE FormatUint(_)
FormatUint(n) ==
    IF n < 10 THEN <<DecDigits[n + 1]>>
    ELSE Append(FormatUint(n \div 10), DecDigits[(n % 10) + 1])

DigitValue(digits, c) ==
    IF \E i \in DOMAIN digits : digits[i] = c
    THEN (CHOOSE i \in DOMAIN digits : digits[i] = c) - 1
    ELSE -1

\* strconv.ParseUint(s, 10, 64); the caller drops the error, so a string
\* that is no number reads as 0
RECURSIVE ParseDigits(_, _, _)
ParseDigits(s, digits, acc) ==
    IF s = <<>> THEN acc
    ELSE ParseDigits(Tail(s), digits, acc * Len(digits) + DigitValue(digits, Head(s)))

IsNumber(s, digits) ==
    /\ s # <<>>
    /\ \A i \in DOMAIN s : DigitValue(digits, s[i]) >= 0

ParseUint(s) == IF IsNumber(s, DecDigits) THEN ParseDigits(s, DecDigits, 0) ELSE 0

\* common.Address.Hex(): "0x" and the address bytes in hex, fixed width
RECURSIVE HexFixed(_, _)
HexFixed(a, width) ==
    IF width = 0 THEN <<>>
    ELSE Append(HexFixed(a \div 16, width - 1), HexDigits[(a % 16) + 1])

AddressHex(a) == <<"0", "x">> \o HexFixed(a, AddrHexLen)

\* (mutant) the 0x prefix is not taken off before the hex digits are read
HexToAddress_PrefixKept(s) ==
    IF IsNumber(s, HexDigits)
    THEN ParseDigits(s, HexDigits, 0) % Pow(16, AddrHexLen)
    ELSE 0

\* common.HexToAddress(s): the 0x prefix is optional, the bytes are cropped
\* from the left to the address length
HexToAddress(s) ==
    LET body == IF Len(s) >= 2 /\ s[1] = "0" /\ s[2] \in {"x", "X"}
                THEN SubSeq(s, 3, Len(s)) ELSE s
    IN  IF IsNumber(body, HexDigits)
        THEN ParseDigits(body, HexDigits, 0) % Pow(16, AddrHexLen)
        ELSE 0

\* strings.Split(s, sep) for a one-character separator
RECURSIVE SplitFrom(_, _, _)
SplitFrom(s, sep, cur) ==
    IF s = <<>> THEN <<cur>>
    ELSE IF Head(s) = sep THEN <<cur>> \o SplitFrom(Tail(s), sep, <<>>)
    ELSE SplitFrom(Tail(s), sep, Append(cur, Head(s)))

Split(s, sep) == SplitFrom(s, sep, <<>>)

\* eventKey := vaultAddress.Hex() + `-` + strconv.FormatUint(blockNumber, 10)
EventKey(vaultAddress, blockNumber) ==
    AddressHex(vaultAddress) \o <<"-">> \o FormatUint(blockNumber)

----------------------------------------------------------------------------
(* bigNumber.Float / bigNumber.Int as exact decimals m * 10^e, kept        *)
(* normalised (no trailing zero in m; zero is 0 * 10^0), and               *)
(* helpers.ToNormalizedAmount                                              *)

RECURSIVE DecNorm(_, _)
DecNorm(m, e) ==
    IF m = 0 THEN [m |-> 0, e |-> 0]
    ELSE IF m % 10 = 0 THEN DecNorm(m \div 10, e + 1)
    ELSE [m |-> m, e |-> e]

DecZero == DecNorm(0, 0)
DecInt(n) == DecNorm(n, 0)
DecIsZero(a) == a.m = 0

MinInt(a, b) == IF a <= b THEN a ELSE b

DecAdd(a, b) ==
    LET e == MinInt(a.e, b.e)
    IN  DecNorm(a.m * Pow(10, a.e - e) + b.m * Pow(10, b.e - e), e)

DecSub(a, b) ==
    LET e == MinInt(a.e, b.e)
    IN  DecNorm(a.m * Pow(10, a.e - e) - b.m * Pow(10, b.e - e), e)

DecMul(a, b) == DecNorm(a.m * b.m, a.e + b.e)

\* Div by a power of ten, the only divisors the code has (10_000, 10^decimals)
DecQuo(a, b) == DecNorm(a.m, a.e - b.e)

\* helpers.ToNormalizedAmount(amount, decimals): amount / 10^decimals
ToNormalizedAmount(amount, decimals) == DecQuo(amount, DecNorm(1, decimals))

\* convertFloatAPRToAPY(apr, periods): (1 + apr/periods)^periods - 1, kept as
\* the term it is of its argument
ConvertFloatAPRToAPY(apr, periods) == [compounded |-> apr, periodsPerYear |-> periods]

\* TForwardAPY{}
ZeroForwardAPY ==
    [Type |-> "", NetAPY |-> None,
     Composite |-> [V3OracleCurrentAPR |-> None, V3OracleStratRatioAPR |-> None]]

\* the state of each part while the other one runs
ApyIdle ==
    /\ chainKnown = FALSE
    /\ oracleSet = FALSE
    /\ clientFails = FALSE
    /\ vaultKind = ""
    /\ totalAssets = None
    /\ useV2APR = FALSE
    /\ strategies = EmptyMap
    /\ apyPc = "idle"
    /\ oracleAPR = DecZero
    /\ hasError = FALSE
    /\ debtRatioAPR = DecZero
    /\ ranged = {}
    /\ forwardAPY = ZeroForwardAPY
    /\ calls = <<>>
    /\ contrib = EmptyMap

EventsIdle ==
    /\ vaults = {}
    /\ start = 0
    /\ end = None
    /\ activation = EmptyMap
    /\ chainLogs = EmptyMap
    /\ queryFails = EmptyMap
    /\ streamFailAt = EmptyMap
    /\ mainPc = "idle"
    /\ toSpawn = {}
    /\ wg = 0
    /\ asyncFeeMap = EmptyMap
    /\ visited = {}
    /\ managementFeeForVaults = EmptyMap
    /\ taskPc = EmptyMap
    /\ taskOpts = EmptyMap
    /\ stream = EmptyMap
    /\ pos = EmptyMap
    /\ loaded = EmptyMap
    /\ queries = <<>>
    /\ inserted = {}
    /\ doneCount = EmptyMap

\* an Update without a Message, and the one before the first loop turn
NoMessage == [Message |-> None]

SignalsIdle ==
    /\ telegramToken = None
    /\ telegramWhitelistedUsers = None
    /\ botFails = FALSE
    /\ listenPc = "idle"
    /\ handled = 0
    /\ update = NoMessage
    /\ reply = None
    /\ reachedSwitch = FALSE
    /\ restartNotice = None
    /\ exitCode = None

InitializedIdle ==
    /\ chains = {}
    /\ initializedCounter = 0
    /\ callPc = EmptyMap
    /\ callReg = EmptyMap
    /\ reported = EmptyMap

MainIdle == SignalsIdle /\ InitializedIdle /\ tgSendOk = FALSE

----------------------------------------------------------------------------
(* The chain data source: the logs of each vault and the filter query *)

\* what chainLogs holds per log: its block and whether decoding it fails
LogShapes == [BlockNumber : Blocks, bad : BOOLEAN]

InBlockOrder(s) == \A i, j \in DOMAIN s : i < j => s[i].BlockNumber <= s[j].BlockNumber

ChainLogSeqs == {s \in SeqsUpTo(LogShapes, MaxLogs) : InBlockOrder(s)}

\* the i-th UpdateManagementFee log of vault v, as the iterator's log.Event
\* (log.Event.Raw.BlockNumber, .TxHash, .TxIndex, .Index, log.Event.ManagementFee)
LogEvent(v, i) ==
    [Raw |-> [BlockNumber |-> chainLogs[v][i].BlockNumber,
              TxHash      |-> <<v, i>>,
              TxIndex     |-> i - 1,
              Index       |-> i],
     ManagementFee |-> 100 * i]

\* bind.FilterOpts{Start, End}: End nil means up to the latest block
InRange(b, opts) == b >= opts.Start /\ (opts.End = None \/ b <= opts.End[1])

RECURSIVE FilterFrom(_, _, _)
FilterFrom(v, opts, i) ==
    IF i > Len(chainLogs[v]) THEN <<>>
    ELSE IF InRange(chainLogs[v][i].BlockNumber, opts)
         THEN <<i>> \o FilterFrom(v, opts, i + 1)
         ELSE FilterFrom(v, opts, i + 1)

\* the logs FilterUpdateManagementFee(opts) streams for vault v, as indexes
\* into chainLogs[v]
FilterLogs(v, opts) == FilterFrom(v, opts, 1)

\* log.Next() is false once the stream is drained or has failed
StreamFailsHere(v) == pos[v] = streamFailAt[v] /\ pos[v] < Len(stream[v])
IteratorNext(v) == pos[v] < Len(stream[v]) /\ ~StreamFailsHere(v)

----------------------------------------------------------------------------
(* filterUpdateManagementFee *)

\* blockData := utils.TEventBlock{...}
BlockData(ev) ==
    [EventType   |-> "updateManagementFee",
     TxHash      |-> ev.Raw.TxHash,
     BlockNumber |-> ev.Raw.BlockNumber,
     TxIndex     |-> ev.Raw.TxIndex,
     LogIndex    |-> ev.Raw.Index,
     Value       |-> ev.ManagementFee]

\* (mutant) the key leaves the vault out: every vault of a block shares it
TaskKey_BlockOnly(v, ev) == EventKey(0, ev.Raw.BlockNumber)

\* the key a goroutine stores the current log under
TaskKey(v, ev) == EventKey(v, ev.Raw.BlockNumber)

\* asyncFeeMap.Load(eventKey)
MapLoad(m, k) ==
    IF k \in DOMAIN m THEN [ok |-> TRUE, val |-> m[k]]
    ELSE [ok |-> FALSE, val |-> <<>>]

\* (mutant) the Store overwrites what the key held
StoredSlice_Overwrite(ld, blockData) == <<blockData>>

\* (mutant) the new record is put in front of the ones the key held
StoredSlice_Prepend(ld, blockData) ==
    IF ld.ok THEN <<blockData>> \o ld.val ELSE <<blockData>>

\* what the goroutine stores after the Load
StoredSlice(ld, blockData) ==
    IF ld.ok THEN Append(ld.val, blockData) ELSE <<blockData>>

\* (mutant) the error of the query is dropped
QueryOk_ErrorDropped(v) == TRUE

\* if log, err := currentVault.FilterUpdateManagementFee(opts); err == nil
QueryOk(v) == ~queryFails[v]

\* (mutant) wg.Done() is not deferred and sits in the err == nil branch
SignalsDone_OnlyOnSuccess(v) == ~queryFails[v]

\* defer wg.Done(): runs on every way out of the goroutine
SignalsDone(v) == TRUE

CurrentEvent(v) == LogEvent(v, stream[v][pos[v] + 1])

\* client := ethereum.GetRPC(chainID); currentVault.FilterUpdateManagementFee(opts)
\* (contracts.NewYvault043 only parses the binding's own ABI; its error, which
\* line 41 drops, is taken not to occur)
TaskQuery(v) ==
    /\ taskPc[v] = "query"
    /\ queries' = Append(queries, [vault |-> v, opts |-> taskOpts[v]])
    /\ IF QueryOk(v)
       THEN /\ taskPc' = [taskPc EXCEPT ![v] = "next"]
            /\ stream' = [stream EXCEPT ![v] = FilterLogs(v, taskOpts[v])]
       ELSE /\ taskPc' = [taskPc EXCEPT ![v] = "exit"]
            /\ UNCHANGED stream
    /\ UNCHANGED <<mainVars, apyVars, evInputs, mainPc, toSpawn, wg, asyncFeeMap, visited,
                   managementFeeForVaults, taskOpts, pos, loaded, inserted,
                   doneCount>>

\* for log.Next() { if log.Error() != nil { continue }; ...; asyncFeeMap.Load(eventKey)
TaskNext(v) ==
    /\ taskPc[v] = "next"
    /\ IF ~IteratorNext(v)
       THEN /\ taskPc' = [taskPc EXCEPT ![v] = "exit"]
            /\ UNCHANGED <<pos, loaded>>
       ELSE IF chainLogs[v][stream[v][pos[v] + 1]].bad
       THEN /\ pos' = [pos EXCEPT ![v] = @ + 1]
            /\ UNCHANGED <<taskPc, loaded>>
       ELSE /\ loaded' = [loaded EXCEPT
                            ![v] = MapLoad(asyncFeeMap, TaskKey(v, CurrentEvent(v)))]
            /\ taskPc' = [taskPc EXCEPT ![v] = "store"]
            /\ UNCHANGED pos
    /\ UNCHANGED <<mainVars, apyVars, evInputs, mainPc, toSpawn, wg, asyncFeeMap, visited,
                   managementFeeForVaults, taskOpts, stream, queries, inserted,
                   doneCount>>

\* asyncFeeMap.Store(eventKey, ...) of either branch, then the next loop turn
TaskStore(v) ==
    /\ taskPc[v] = "store"
    /\ LET ev == CurrentEvent(v)
       IN  /\ asyncFeeMap' = MapPut(asyncFeeMap, TaskKey(v, ev),
                                    StoredSlice(loaded[v], BlockData(ev)))
           /\ inserted' = inserted \cup {<<v, BlockData(ev)>>}
    /\ pos' = [pos EXCEPT ![v] = @ + 1]
    /\ taskPc' = [taskPc EXCEPT ![v] = "next"]
    /\ UNCHANGED <<mainVars, apyVars, evInputs, mainPc, toSpawn, wg, visited,
                   managementFeeForVaults, taskOpts, stream, loaded, queries,
                   doneCount>>

\* the goroutine returns; the deferred wg.Done() runs
TaskExit(v) ==
    /\ taskPc[v] = "exit"
    /\ taskPc' = [taskPc EXCEPT ![v] = "done"]
    /\ IF SignalsDone(v)
       THEN /\ wg' = wg - 1
            /\ doneCount' = [doneCount EXCEPT ![v] = @ + 1]
       ELSE UNCHANGED <<wg, doneCount>>
    /\ UNCHANGED <<mainVars, apyVars, evInputs, mainPc, toSpawn, asyncFeeMap, visited,
                   managementFeeForVaults, taskOpts, stream, pos, loaded,
                   queries, inserted>>

----------------------------------------------------------------------------
(* HandleUpdateManagementFee *)

\* (mutant) the start argument is used as given, 0 included
OptsFor_StartAsGiven(v) == [Start |-> start, End |-> end]

\* opts := &bind.FilterOpts{Start: start, End: end}; if start == 0 { ...v.Activation... }
OptsFor(v) ==
    IF start = 0 THEN [Start |-> activation[v], End |-> end]
    ELSE [Start |-> start, End |-> end]

\* (mutant) the caller does not wait
WaitUnblocked_NoBarrier == TRUE

\* wg.Wait() returns when the counter is zero
WaitUnblocked == wg = 0

\* one turn of for _, v := range vaults: wg.Add(1); go filterUpdateManagementFee(...)
Spawn(v) ==
    /\ mainPc = "loop"
    /\ v \in toSpawn
    /\ toSpawn' = toSpawn \ {v}
    /\ wg' = wg + 1
    /\ taskOpts' = [taskOpts EXCEPT ![v] = OptsFor(v)]
    /\ taskPc' = [taskPc EXCEPT ![v] = "query"]
    /\ UNCHANGED <<mainVars, apyVars, evInputs, mainPc, asyncFeeMap, visited,
                   managementFeeForVaults, stream, pos, loaded, queries,
                   inserted, doneCount>>

\* the loop is over and wg.Wait() returns
Wait ==
    /\ mainPc = "loop"
    /\ toSpawn = {}
    /\ WaitUnblocked
    /\ mainPc' = "range"
    /\ UNCHANGED <<mainVars, apyVars, evInputs, toSpawn, wg, asyncFeeMap, visited,
                   managementFeeForVaults, taskPc, taskOpts, stream, pos,
                   loaded, queries, inserted, doneCount>>

\* the body of the Range callback for one key
Reshape(out, key, value) ==
    LET eventKey == Split(key, "-")
        vaultAddress == HexToAddress(eventKey[1])
        blockNumber == ParseUint(eventKey[2])
        inner == IF vaultAddress \in DOMAIN out THEN out[vaultAddress] ELSE EmptyMap
    IN  MapPut(out, vaultAddress, MapPut(inner, blockNumber, value))

\* asyncManagementFeeUpdate.Range calls the callback for a key it has not
\* passed yet, in no particular order
RangeStep(key) ==
    /\ mainPc = "range"
    /\ key \in (DOMAIN asyncFeeMap) \ visited
    /\ visited' = visited \cup {key}
    /\ managementFeeForVaults' = Reshape(managementFeeForVaults, key, asyncFeeMap[key])
    /\ UNCHANGED <<mainVars, apyVars, evInputs, mainPc, toSpawn, wg, asyncFeeMap, taskPc,
                   taskOpts, stream, pos, loaded, queries, inserted, doneCount>>

\* Range is over: return managementFeeForVaults
Return ==
    /\ mainPc = "range"
    /\ (DOMAIN asyncFeeMap) \ visited = {}
    /\ mainPc' = "done"
    /\ UNCHANGED <<mainVars, apyVars, evInputs, toSpawn, wg, asyncFeeMap, visited,
                   managementFeeForVaults, taskPc, taskOpts, stream, pos,
                   loaded, queries, inserted, doneCount>>

----------------------------------------------------------------------------
(* The specification of one call of HandleUpdateManagementFee *)

\* start: 0 or a block; end: nil or a block before the last one
StartBlocks == {0, MaxBlock}
EndBlocks == {None, Some(MaxBlock - 1)}

\* the vaults' activation blocks: distinct blocks, in either order
Activations(vs) ==
    {[v \in vs |-> ((v + k) % MaxBlock) + 1] : k \in 0..(MaxBlock - 1)}

\* The vaults argument is keyed by the vaults' own addresses, so the loop
\* starts one goroutine per address.
InitEvents ==
    /\ vaults \in {1..n : n \in 0..MaxVaults}
    /\ start \in StartBlocks
    /\ end \in EndBlocks
    /\ activation \in Activations(vaults)
    /\ chainLogs \in [vaults -> ChainLogSeqs]
    /\ queryFails \in [vaults -> BOOLEAN]
    /\ streamFailAt \in [vaults -> 0..MaxLogs]
    /\ \A v \in vaults :
          /\ streamFailAt[v] <= Len(chainLogs[v])
          /\ queryFails[v] => streamFailAt[v] = Len(chainLogs[v])
    /\ mainPc = "loop"
    /\ toSpawn = vaults
    /\ wg = 0
    /\ asyncFeeMap = EmptyMap
    /\ visited = {}
    /\ managementFeeForVaults = EmptyMap
    /\ taskPc = [v \in vaults |-> "idle"]
    /\ taskOpts = [v \in vaults |-> [Start |-> 0, End |-> None]]
    /\ stream = [v \in vaults |-> <<>>]
    /\ pos = [v \in vaults |-> 0]
    /\ loaded = [v \in vaults |-> [ok |-> FALSE, val |-> <<>>]]
    /\ queries = <<>>
    /\ inserted = {}
    /\ doneCount = [v \in vaults |-> 0]
    /\ ApyIdle
    /\ MainIdle

NextEvents ==
    \/ \E v \in vaults : Spawn(v)
    \/ Wait
    \/ \E key \in DOMAIN asyncFeeMap : RangeStep(key)
    \/ Return
    \/ \E v \in vaults : TaskQuery(v)
    \/ \E v \in vaults : TaskNext(v)
    \/ \E v \in vaults : TaskStore(v)
    \/ \E v \in vaults : TaskExit(v)

SpecEvents == InitEvents /\ [][NextEvents]_vars

\* The Go scheduler runs every runnable goroutine: a goroutine that can take
\* a step eventually takes it (each log query finishes), and so does the caller.
FairEvents ==
    /\ \A v \in VaultAddrs :
          WF_vars(v \in vaults /\ (TaskQuery(v) \/ TaskNext(v) \/ TaskStore(v) \/ TaskExit(v)))
    /\ WF_vars(Wait \/ Return \/ (\E v \in vaults : Spawn(v))
                  \/ (\E key \in DOMAIN asyncFeeMap : RangeStep(key)))

\* the calls over the whole block range (start = 0, end = nil), one order of
\* activation blocks
InitEventsWholeRange ==
    /\ InitEvents
    /\ start = 0
    /\ end = None
    /\ activation = [v \in vaults |-> (v % MaxBlock) + 1]

SpecEventsFair == InitEventsWholeRange /\ [][NextEvents]_vars /\ FairEvents

----------------------------------------------------------------------------
(* computeVaultV3ForwardAPY *)

MaxStrategies == 2

\* models.VaultKindMultiple, VaultKindSingle, VaultKindLegacy
VaultKinds == {"Multiple", "Single", "Legacy"}

TotalAssetsValues == {None, Some(0), Some(1000)}
DebtRatios == {None, Some(0), Some(4000), Some(6000)}
PerformanceFees == {1000, 2000}

\* what the oracle contract answers: an error, or an APR as an integer at
\* the 18-decimal scale (0.05, 0.03, 0.08, 0.10)
Failed == [err |-> TRUE, val |-> DecZero]
Answer(m, e) == [err |-> FALSE, val |-> DecNorm(m, e)]
VaultAprAnswers == {Failed, Answer(0, 0), Answer(5, 16)}
CurrentAprAnswers == {Failed, Answer(3, 16)}
StrategyAprAnswers == {Failed, Answer(8, 16), Answer(1, 17)}

OfVault == <<"vault">>
OfStrategy(s) == <<"strategy", s>>
Call(fn, target, ans) == [fn |-> fn, target |-> target, ans |-> ans]

\* chain, ok := env.GetChain(vault.ChainID); if !ok { return TForwardAPY{} }
ChainFound == chainKnown

\* (mutant) the zero oracle address is not checked
OracleDeployed_Unchecked == TRUE

\* if oracleContract == common.HexToAddress(``) { return TForwardAPY{} }
OracleDeployed == oracleSet

\* oracle, err := contracts.NewYVaultsV3APROracleCaller(...); if err != nil { return }
ClientBuilt == ~clientFails

\* (mutant) GetCurrentApr is called whatever GetStrategyApr returned
NeedsFallback_Always(failed, apr) == TRUE

\* (mutant) only an error of GetStrategyApr leads to GetCurrentApr
NeedsFallback_ErrorOnly(failed, apr) == failed

\* if hasError != nil || oracleAPR.IsZero()
NeedsFallback(failed, apr) == failed \/ DecIsZero(apr)

\* if vault.LastTotalAssets == nil || vault.LastTotalAssets.IsZero()
EmptyVault == totalAssets = None \/ totalAssets[1] = 0

\* (mutant) only a nil debt ratio is skipped
SkipsStrategy_NilOnly(s) == strategies[s].LastDebtRatio = None

\* if strategy.LastDebtRatio == nil || strategy.LastDebtRatio.IsZero() { continue }
SkipsStrategy(s) ==
    \/ strategies[s].LastDebtRatio = None
    \/ strategies[s].LastDebtRatio[1] = 0

\* (mutant) the loop of the empty-vault branch has no break
BreaksAfterFirst_Missing == FALSE

\* // We only want the first strategy: break
BreaksAfterFirst == TRUE

\* (mutant) the fee share is added to 1
FeeRatio_FeeAdded(s) ==
    DecAdd(DecInt(1), DecQuo(DecInt(strategies[s].LastPerformanceFee), DecInt(10000)))

\* performanceFee := 1 - LastPerformanceFee / 10_000
FeeRatio(s) ==
    DecSub(DecInt(1), DecQuo(DecInt(strategies[s].LastPerformanceFee), DecInt(10000)))

\* (mutant) the kind of the vault is not read
IsMultiple_AnyKind == TRUE

\* if vault.Kind == models.VaultKindMultiple
IsMultiple == vaultKind = "Multiple"

\* where the function goes on after the oracle APR is known
AfterOracle ==
    IF ~IsMultiple THEN "finish"
    ELSE IF EmptyVault
         THEN (IF Cardinality(DOMAIN strategies) > 0 THEN "emptyVault" ELSE "finish")
         ELSE "normal"

\* the three early returns, else on to the oracle
Setup ==
    /\ apyPc = "start"
    /\ IF ChainFound /\ OracleDeployed /\ ClientBuilt
       THEN apyPc' = "oracle1"
       ELSE apyPc' = "done"
    /\ UNCHANGED <<mainVars, evVars, apyInputs, oracleAPR, hasError, debtRatioAPR, ranged,
                   forwardAPY, calls, contrib>>

\* expected, err := oracle.GetStrategyApr(nil, vault.Address, big.NewInt(0))
CallGetStrategyApr ==
    /\ apyPc = "oracle1"
    /\ \E ans \in VaultAprAnswers :
          LET apr == IF ans.err THEN oracleAPR ELSE ToNormalizedAmount(ans.val, 18)
          IN  /\ calls' = Append(calls, Call("GetStrategyApr", OfVault, ans))
              /\ oracleAPR' = apr
              /\ hasError' = ans.err
              /\ apyPc' = IF NeedsFallback(ans.err, apr) THEN "oracle2" ELSE AfterOracle
    /\ UNCHANGED <<mainVars, evVars, apyInputs, debtRatioAPR, ranged, forwardAPY, contrib>>

\* expected, err := oracle.GetCurrentApr(nil, vault.Address)
CallGetCurrentApr ==
    /\ apyPc = "oracle2"
    /\ \E ans \in CurrentAprAnswers :
          /\ calls' = Append(calls, Call("GetCurrentApr", OfVault, ans))
          /\ oracleAPR' = IF ans.err THEN oracleAPR ELSE ToNormalizedAmount(ans.val, 18)
    /\ apyPc' = AfterOracle
    /\ UNCHANGED <<mainVars, evVars, apyInputs, hasError, debtRatioAPR, ranged, forwardAPY,
                   contrib>>

\* one turn of the loop of the empty-vault branch, over a strategy the range
\* has not passed yet (the order of a Go map range is not fixed)
EmptyVaultTurn(s) ==
    /\ apyPc = "emptyVault"
    /\ s \in (DOMAIN strategies) \ ranged
    /\ ranged' = ranged \cup {s}
    /\ \E ans \in StrategyAprAnswers :
          /\ calls' = Append(calls, Call("GetStrategyApr", OfStrategy(s), ans))
          /\ IF ans.err
             THEN /\ apyPc' = IF ranged' = DOMAIN strategies THEN "finish" ELSE "emptyVault"
                  /\ UNCHANGED <<debtRatioAPR, contrib>>
             ELSE LET humanizedAPR == ToNormalizedAmount(ans.val, 18)
                      scaledStrategyAPR == DecMul(humanizedAPR, FeeRatio(s))
                  IN  /\ debtRatioAPR' = DecMul(DecAdd(debtRatioAPR, scaledStrategyAPR),
                                                DecNorm(9, -1))
                      /\ contrib' = [contrib EXCEPT ![s] = scaledStrategyAPR]
                      /\ apyPc' = IF BreaksAfterFirst \/ ranged' = DOMAIN strategies
                                  THEN "finish" ELSE "emptyVault"
    /\ UNCHANGED <<mainVars, evVars, apyInputs, oracleAPR, hasError, forwardAPY>>

\* (mutant) the 0.9 is applied at every turn of the loop, as the empty-vault
\* branch does
NormalAccumulate_HaircutEachTurn(total, scaledStrategyAPR) ==
    DecMul(DecAdd(total, scaledStrategyAPR), DecNorm(9, -1))

\* debtRatioAPR = bigNumber.NewFloat(0).Add(debtRatioAPR, scaledStrategyAPR)
NormalAccumulate(total, scaledStrategyAPR) == DecAdd(total, scaledStrategyAPR)

\* (mutant) a failed strategy query ends the function with the empty result
AfterFailedQuery_Abort == "done"

\* if err != nil { logs.Error(...); continue }: on to the next loop turn
AfterFailedQuery == "normal"

\* one turn of the loop of the normal branch
NormalTurn(s) ==
    /\ apyPc = "normal"
    /\ s \in (DOMAIN strategies) \ ranged
    /\ ranged' = ranged \cup {s}
    /\ IF SkipsStrategy(s)
       THEN UNCHANGED <<calls, debtRatioAPR, contrib, apyPc>>
       ELSE \E ans \in StrategyAprAnswers :
              /\ calls' = Append(calls, Call("GetStrategyApr", OfStrategy(s), ans))
              /\ IF ans.err
                 THEN /\ apyPc' = AfterFailedQuery
                      /\ UNCHANGED <<debtRatioAPR, contrib>>
                 ELSE LET humanizedAPR == ToNormalizedAmount(ans.val, 18)
                          debtRatio == ToNormalizedAmount(
                                          DecInt(strategies[s].LastDebtRatio[1]), 4)
                          scaledStrategyAPR ==
                              DecMul(DecMul(humanizedAPR, debtRatio), FeeRatio(s))
                      IN  /\ debtRatioAPR' = NormalAccumulate(debtRatioAPR, scaledStrategyAPR)
                          /\ contrib' = [contrib EXCEPT ![s] = scaledStrategyAPR]
                          /\ UNCHANGED apyPc
    /\ UNCHANGED <<mainVars, evVars, apyInputs, oracleAPR, hasError, forwardAPY>>

\* after the loop of the normal branch: debtRatioAPR = debtRatioAPR * 0.9
NormalEnd ==
    /\ apyPc = "normal"
    /\ ranged = DOMAIN strategies
    /\ debtRatioAPR' = DecMul(debtRatioAPR, DecNorm(9, -1))
    /\ apyPc' = "finish"
    /\ UNCHANGED <<mainVars, evVars, apyInputs, oracleAPR, hasError, ranged, forwardAPY,
                   calls, contrib>>

\* (mutant) the flag is not read: the oracle APR is always the net one
PrimaryAPR_AlwaysOracle == oracleAPR

\* primaryAPR := oracleAPR; if vault.Metadata.ShouldUseV2APR { primaryAPR = debtRatioAPR }
PrimaryAPR == IF useV2APR THEN debtRatioAPR ELSE oracleAPR

\* the three conversions and return TForwardAPY{...}
Finish ==
    /\ apyPc = "finish"
    /\ forwardAPY' =
         [Type |-> "v3:onchainOracle",
          NetAPY |-> Some(ConvertFloatAPRToAPY(PrimaryAPR, 52)),
          Composite |->
            [V3OracleCurrentAPR |-> Some(ConvertFloatAPRToAPY(oracleAPR, 52)),
             V3OracleStratRatioAPR |-> Some(ConvertFloatAPRToAPY(debtRatioAPR, 52))]]
    /\ apyPc' = "done"
    /\ UNCHANGED <<mainVars, evVars, apyInputs, oracleAPR, hasError, debtRatioAPR, ranged,
                   calls, contrib>>

StrategyRecords == [LastDebtRatio : DebtRatios, LastPerformanceFee : PerformanceFees]

InitApy ==
    /\ chainKnown \in BOOLEAN
    /\ oracleSet \in BOOLEAN
    /\ clientFails \in BOOLEAN
    \* an unknown chain has no oracle address, and no client is built for
    \* the zero address
    /\ ~chainKnown => ~oracleSet
    /\ ~oracleSet => ~clientFails
    /\ vaultKind \in VaultKinds
    /\ totalAssets \in TotalAssetsValues
    /\ useV2APR \in BOOLEAN
    /\ \E n \in 0..MaxStrategies : strategies \in [1..n -> StrategyRecords]
    /\ apyPc = "start"
    /\ oracleAPR = DecZero
    /\ hasError = FALSE
    /\ debtRatioAPR = DecZero
    /\ ranged = {}
    /\ forwardAPY = ZeroForwardAPY
    /\ calls = <<>>
    /\ contrib = [s \in DOMAIN strategies |-> DecZero]
    /\ EventsIdle
    /\ MainIdle

NextApy ==
    \/ Setup
    \/ CallGetStrategyApr
    \/ CallGetCurrentApr
    \/ \E s \in DOMAIN strategies : EmptyVaultTurn(s)
    \/ \E s \in DOMAIN strategies : NormalTurn(s)
    \/ NormalEnd
    \/ Finish

SpecApy == InitApy /\ [][NextApy]_vars

----------------------------------------------------------------------------
(* package main: triggerTgMessage, listenToSignals *)

MaxUpdates == 3
MaxChains == 3

\* strings.ToLower, over the letters the user names are made of
UpperCase == <<"A", "B">>
LowerCase == <<"a", "b">>

ToLower(s) ==
    [i \in DOMAIN s |->
        IF \E k \in DOMAIN UpperCase : UpperCase[k] = s[i]
        THEN LowerCase[CHOOSE k \in DOMAIN UpperCase : UpperCase[k] = s[i]]
        ELSE s[i]]

\* helpers.Contains(slice, value)
Contains(slice, value) == \E i \in DOMAIN slice : slice[i] = value

\* triggerTgMessage(message): what reaches the chat; nothing when a variable
\* is missing, the chat id is no number, the bot cannot be built or the send
\* fails (each is logged and dropped)
TriggerTgMessage(message) == IF tgSendOk THEN Some(message) ELSE None

\* update.Message.From.UserName: a user without user name has the empty one
UserNames == {<<>>, <<"a">>, <<"A">>, <<"b">>}

\* update.Message.Command(): "" for a message that is no command
Commands == {"", "help", "restart", "status"}

Messages ==
    {m \in [IsCommand : BOOLEAN, From : [UserName : UserNames], Command : Commands] :
        m.IsCommand <=> m.Command # ""}

Updates == {NoMessage} \cup {[Message |-> Some(m)] : m \in Messages}

\* values of TELEGRAM_WHITELIST: empty, one name, a name in upper case, two names
WhitelistValues == {<<>>, <<"a">>, <<"A">>, <<"a", ",", "b">>}

\* telegramWhitelistedUsersArray := strings.Split(telegramWhitelistedUsers, `,`)
TelegramWhitelistedUsersArray == Split(telegramWhitelistedUsers[1], ",")

\* (mutant) the sender is not checked
IsWhitelisted_Everyone(m) == TRUE

\* helpers.Contains(telegramWhitelistedUsersArray, lowercaseUserName)
IsWhitelisted(m) == Contains(TelegramWhitelistedUsersArray, ToLower(m.From.UserName))

\* the two lookups and tgbotapi.NewBotAPI, each with its early return
ListenSetup ==
    /\ listenPc = "start"
    /\ listenPc' = IF telegramToken = None \/ telegramWhitelistedUsers = None \/ botFails
                   THEN "returned" ELSE "receive"
    /\ UNCHANGED <<evVars, apyVars, initVars, tgInputs, handled, update, reply,
                   reachedSwitch, restartNotice, exitCode>>

\* one turn of for update := range updates
HandleUpdate(u) ==
    /\ listenPc = "receive"
    /\ handled < MaxUpdates
    /\ handled' = handled + 1
    /\ update' = u
    /\ IF u.Message = None \/ ~u.Message[1].IsCommand
       THEN /\ reply' = None
            /\ reachedSwitch' = FALSE
            /\ UNCHANGED <<listenPc, restartNotice, exitCode>>
       ELSE IF ~IsWhitelisted(u.Message[1])
       THEN /\ reply' = Some("You are not authorized to use this bot.")
            /\ reachedSwitch' = FALSE
            /\ UNCHANGED <<listenPc, restartNotice, exitCode>>
       ELSE /\ reachedSwitch' = TRUE
            /\ CASE u.Message[1].Command = "help" ->
                      /\ reply' = Some("I understand /restart.")
                      /\ UNCHANGED <<listenPc, restartNotice, exitCode>>
                 [] u.Message[1].Command = "restart" ->
                      /\ reply' = None
                      /\ restartNotice' =
                            TriggerTgMessage([asker |-> u.Message[1].From.UserName])
                      /\ exitCode' = Some(1)
                      /\ listenPc' = "exited"
                 [] OTHER ->
                      /\ reply' = Some("I don't know that command")
                      /\ UNCHANGED <<listenPc, restartNotice, exitCode>>
    /\ UNCHANGED <<evVars, apyVars, initVars, tgInputs>>

\* the updates channel is closed: the range loop and the function end
UpdatesClosed ==
    /\ listenPc = "receive"
    /\ listenPc' = "returned"
    /\ UNCHANGED <<evVars, apyVars, initVars, tgInputs, handled, update, reply,
                   reachedSwitch, restartNotice, exitCode>>

InitSignals ==
    /\ telegramToken \in {None, Some("token")}
    /\ telegramWhitelistedUsers \in {None} \cup {Some(w) : w \in WhitelistValues}
    /\ botFails \in BOOLEAN
    /\ tgSendOk \in BOOLEAN
    \* no bot is built without a token and a whitelist
    /\ (telegramToken = None \/ telegramWhitelistedUsers = None) => ~botFails
    /\ listenPc = "start"
    /\ handled = 0
    /\ update = NoMessage
    /\ reply = None
    /\ reachedSwitch = FALSE
    /\ restartNotice = None
    /\ exitCode = None
    /\ InitializedIdle
    /\ EventsIdle
    /\ ApyIdle

NextSignals ==
    \/ ListenSetup
    \/ \E u \in Updates : HandleUpdate(u)
    \/ UpdatesClosed

SpecSignals == InitSignals /\ [][NextSignals]_vars

----------------------------------------------------------------------------
(* package main: triggerInitializedStatus, called once per chain by        *)
(* goroutines that share initializedCounter without a lock                 *)

\* initializedCounter++, first half: the value is read
CounterLoad(c) ==
    /\ callPc[c] = "idle"
    /\ callReg' = [callReg EXCEPT ![c] = initializedCounter]
    /\ callPc' = [callPc EXCEPT ![c] = "store"]
    /\ UNCHANGED <<evVars, apyVars, tgVars, chains, initializedCounter, reported>>

\* initializedCounter++, second half: the value read, plus one, is written
CounterStore(c) ==
    /\ callPc[c] = "store"
    /\ initializedCounter' = callReg[c] + 1
    /\ callPc' = [callPc EXCEPT ![c] = "message"]
    /\ UNCHANGED <<evVars, apyVars, tgVars, chains, callReg, reported>>

\* triggerTgMessage(`... (` + strconv.Itoa(initializedCounter) + `/` +
\* strconv.Itoa(len(chains)) + `)`): the counter is read again
StatusMessage(c) ==
    /\ callPc[c] = "message"
    /\ reported' = [reported EXCEPT
                      ![c] = Some([chainID |-> c,
                                   count |-> FormatUint(initializedCounter),
                                   of |-> FormatUint(Cardinality(chains)),
                                   sent |-> TriggerTgMessage(c) # None])]
    /\ callPc' = [callPc EXCEPT ![c] = "done"]
    /\ UNCHANGED <<evVars, apyVars, tgVars, chains, initializedCounter, callReg>>

InitInitialized ==
    /\ chains \in {1..n : n \in 1..MaxChains}
    /\ tgSendOk \in BOOLEAN
    /\ initializedCounter = 0
    /\ callPc = [c \in chains |-> "idle"]
    /\ callReg = [c \in chains |-> 0]
    /\ reported = [c \in chains |-> None]
    /\ SignalsIdle
    /\ EventsIdle
    /\ ApyIdle

NextInitialized ==
    \/ \E c \in chains : CounterLoad(c)
    \/ \E c \in chains : CounterStore(c)
    \/ \E c \in chains : StatusMessage(c)

SpecInitialized == InitInitialized /\ [][NextInitialized]_vars

----------------------------------------------------------------------------
(* What the properties of HandleUpdateManagementFee speak of *)

SeqRange(s) == {s[i] : i \in DOMAIN s}

\* an Event History as the set of its <<vault, block, record>>
HistoryTriples(h) ==
    UNION {UNION {{<<v, b, r>> : r \in SeqRange(h[v][b])} : b \in DOMAIN h[v]} : v \in DOMAIN h}

RecordsOf(h, v) == {t \in HistoryTriples(h) : t[1] = v}

\* From the inputs alone: the logs of v in the block range asked for, how many
\* of them come before log i, whether the stream fails before its end, and
\* the logs the goroutine gets out of the stream decoded
InRangeIdx(v) ==
    {i \in DOMAIN chainLogs[v] : InRange(chainLogs[v][i].BlockNumber, OptsFor(v))}
Rank(v, i) == Cardinality({j \in InRangeIdx(v) : j < i})
StreamFails(v) == ~queryFails[v] /\ streamFailAt[v] < Cardinality(InRangeIdx(v))
TaskFailed(v) == queryFails[v] \/ StreamFails(v)
YieldedIdx(v) ==
    IF queryFails[v] THEN {}
    ELSE {i \in InRangeIdx(v) : ~chainLogs[v][i].bad /\ Rank(v, i) < streamFailAt[v]}

ExpectedOf(v) ==
    {<<v, chainLogs[v][i].BlockNumber, BlockData(LogEvent(v, i))>> : i \in YieldedIdx(v)}
ExpectedTriples == UNION {ExpectedOf(v) : v \in vaults}

ReshapeBegun == mainPc \in {"range", "done"}
Returned == mainPc = "done"

----------------------------------------------------------------------------
(* C1: the reshape pass starts only once every goroutine has finished: a    *)
(* step never leaves the caller in the reshape pass with a goroutine not   *)
(* done, and no step of the reshape pass changes the sync.Map or adds an   *)
(* insertion.                                                              *)
C1_BarrierBeforeReshape ==
    [][ReshapeBegun' =>
          /\ \A v \in vaults : taskPc'[v] = "done"
          /\ ReshapeBegun => (asyncFeeMap' = asyncFeeMap /\ inserted' = inserted)]_vars

\* the reshape pass is under way over what two goroutines stored
C1_Witness ==
    /\ mainPc = "range"
    /\ visited # {}
    /\ \E v, w \in vaults : v # w /\ (\E r \in inserted : r[1] = v)
                                /\ (\E r \in inserted : r[1] = w)

(* C2: every record a goroutine stored is in the returned Event History    *)
(* under its vault and block, and each (vault, block) entry holds exactly  *)
(* as many records as were stored for it: none lost, none overwritten.     *)
C2_NoInsertionLost ==
    Returned =>
      /\ \A ins \in inserted :
            <<ins[1], ins[2].BlockNumber, ins[2]>> \in HistoryTriples(managementFeeForVaults)
      /\ \A v \in DOMAIN managementFeeForVaults :
           \A b \in DOMAIN managementFeeForVaults[v] :
              Len(managementFeeForVaults[v][b]) =
                 Cardinality({ins \in inserted : ins[1] = v /\ ins[2].BlockNumber = b})

\* two records appended under one key, while another vault stored in the
\* same block
C2_Witness ==
    /\ Returned
    /\ \E v, w \in DOMAIN managementFeeForVaults :
         \E b \in DOMAIN managementFeeForVaults[v] :
            /\ v # w
            /\ Len(managementFeeForVaults[v][b]) = 2
            /\ b \in DOMAIN managementFeeForVaults[w]

(* C3: the returned Event History, as a set of records per vault and       *)
(* block, is the one the inputs determine, whatever the order of the loop  *)
(* over the vaults, of the goroutines' steps and of the Range callback.    *)
C3_OrderIndependent ==
    Returned => HistoryTriples(managementFeeForVaults) = ExpectedTriples

\* a run whose second vault was queried first, both vaults with records
C3_Witness ==
    /\ Returned
    /\ Len(queries) = 2
    /\ queries[1].vault = 2
    /\ \A v \in vaults : RecordsOf(managementFeeForVaults, v) # {}

(* C4 as stated: a vault whose goroutine fails (the query returns an       *)
(* error, or the stream fails before its end) has no record in the         *)
(* returned history, and every other goroutine finishes with the records   *)
(* its own logs determine.                                                 *)
C4_FailedVaultHasNoRecords ==
    Returned =>
      \A v \in vaults : TaskFailed(v) =>
         /\ RecordsOf(managementFeeForVaults, v) = {}
         /\ \A w \in vaults \ {v} :
               /\ taskPc[w] = "done"
               /\ RecordsOf(managementFeeForVaults, w) = ExpectedOf(w)

(* C4 amended: a vault whose query returns an error has no record; a vault *)
(* whose stream fails before its end has exactly the records decoded       *)
(* before the failure; in both cases every other goroutine finishes with   *)
(* the records its own logs determine (ExpectedOf(w) reads nothing of v).  *)
C4_FailureIsLocal ==
    Returned =>
      \A v \in vaults : TaskFailed(v) =>
         /\ queryFails[v] => RecordsOf(managementFeeForVaults, v) = {}
         /\ StreamFails(v) =>
              RecordsOf(managementFeeForVaults, v) =
                {<<v, chainLogs[v][i].BlockNumber, BlockData(LogEvent(v, i))>> :
                    i \in {j \in InRangeIdx(v) :
                             ~chainLogs[v][j].bad /\ Rank(v, j) < streamFailAt[v]}}
         /\ \A w \in vaults \ {v} :
               /\ taskPc[w] = "done"
               /\ RecordsOf(managementFeeForVaults, w) = ExpectedOf(w)

\* one vault's query failed though it had logs in range, the other's stream
\* failed after it had yielded a record, which the history holds
C4_Witness ==
    /\ Returned
    /\ \E v, w \in vaults :
          /\ queryFails[v]
          /\ InRangeIdx(v) # {}
          /\ StreamFails(w)
          /\ RecordsOf(managementFeeForVaults, w) # {}

(* C5: under the scheduler's fairness every call returns: eventually the   *)
(* caller is past the barrier and the reshape pass, and every goroutine    *)
(* has signalled the WaitGroup exactly once.                               *)
C5_AlwaysReturns ==
    <>(Returned /\ \A v \in vaults : doneCount[v] = 1)

\* a call that returned with one goroutine failed and one not
C5_Witness ==
    /\ Returned
    /\ \E v, w \in vaults : queryFails[v] /\ ~TaskFailed(w) /\ YieldedIdx(w) # {}
    /\ \A v \in vaults : doneCount[v] = 1

----------------------------------------------------------------------------
(* What the properties of computeVaultV3ForwardAPY speak of *)

\* none of the three early returns was taken
SetupPassed == chainKnown /\ oracleSet /\ ~clientFails

IsStrategyCall(c) == c.target[1] = "strategy"
StrategyCalls == SelectSeq(calls, IsStrategyCall)
Queried(s) == \E i \in DOMAIN calls : IsStrategyCall(calls[i]) /\ calls[i].target[2] = s
CurrentAprCalled == \E i \in DOMAIN calls : calls[i].fn = "GetCurrentApr"

\* the arithmetic of the claims, written out: value / 10^18, 1 - fee / 10000,
\* ratio / 10000, times 0.9
Normalized18(val) == DecNorm(val.m, val.e - 18)
FeeFactor(s) == DecNorm(10000 - strategies[s].LastPerformanceFee, -4)
RatioShare(s) == DecNorm(strategies[s].LastDebtRatio[1], -4)
Haircut(x) == DecMul(x, DecNorm(9, -1))

ZeroOrNilRatio(s) ==
    strategies[s].LastDebtRatio = None \/ strategies[s].LastDebtRatio[1] = 0

\* the answer the oracle gave for strategy s (s was queried)
AnswerFor(s) ==
    calls[CHOOSE i \in DOMAIN calls :
             IsStrategyCall(calls[i]) /\ calls[i].target[2] = s].ans

RECURSIVE SumContrib(_)
SumContrib(S) ==
    IF S = {} THEN DecZero
    ELSE LET s == CHOOSE x \in S : TRUE
         IN  DecAdd(contrib[s], SumContrib(S \ {s}))

ApyReturned == apyPc = "done"
PastOracle == apyPc \in {"emptyVault", "normal", "finish", "done"} /\ calls # <<>>

----------------------------------------------------------------------------
(* C6: once GetStrategyApr(vault, 0) has succeeded with a nonzero value,    *)
(* GetCurrentApr is not called, then or later, and the oracle APR is that  *)
(* value normalised, up to the result's composite.                         *)
C6_NonzeroSkipsGetCurrentApr ==
    (Len(calls) >= 1 /\ ~calls[1].ans.err /\ calls[1].ans.val.m # 0) =>
       /\ ~CurrentAprCalled
       /\ apyPc # "oracle2"
       /\ oracleAPR = Normalized18(calls[1].ans.val)
       /\ ApyReturned =>
            forwardAPY.Composite.V3OracleCurrentAPR =
               Some(ConvertFloatAPRToAPY(Normalized18(calls[1].ans.val), 52))

\* returned after the vault-level call gave 0.05 and strategies were queried
C6_Witness ==
    /\ ApyReturned
    /\ Len(calls) >= 2
    /\ calls[1].ans = Answer(5, 16)
    /\ oracleAPR = DecNorm(5, -2)

(* C7: GetCurrentApr is called exactly when GetStrategyApr(vault, 0) failed *)
(* or returned zero, and then as the second call only; when it succeeds    *)
(* its normalised value is the oracle APR; when both calls fail the oracle *)
(* APR is zero and the function goes on to return a full result.           *)
C7_FallbackExactlyWhenNeeded ==
    PastOracle =>
      LET first == calls[1].ans
          attempted == Len(calls) >= 2 /\ calls[2].fn = "GetCurrentApr"
      IN  /\ attempted <=> (first.err \/ first.val.m = 0)
          /\ \A i \in DOMAIN calls : calls[i].fn = "GetCurrentApr" => i = 2
          /\ (attempted /\ ~calls[2].ans.err) =>
                oracleAPR = Normalized18(calls[2].ans.val)
          /\ (attempted /\ calls[2].ans.err /\ first.err) =>
                /\ DecIsZero(oracleAPR)
                /\ ApyReturned =>
                     /\ forwardAPY.Type = "v3:onchainOracle"
                     /\ forwardAPY.Composite.V3OracleCurrentAPR =
                           Some(ConvertFloatAPRToAPY(DecZero, 52))

\* returned a full result after both oracle calls failed
C7_Witness ==
    /\ ApyReturned
    /\ Len(calls) >= 2
    /\ calls[1].ans.err
    /\ calls[2].fn = "GetCurrentApr"
    /\ calls[2].ans.err
    /\ forwardAPY.Type = "v3:onchainOracle"

(* C8: with the chain unknown, the oracle address zero or the oracle client *)
(* not built, no oracle call is ever made, the function does nothing but   *)
(* return, and what it returns is the zero-valued TForwardAPY.             *)
C8_EarlyReturnIsEmpty ==
    (~chainKnown \/ ~oracleSet \/ clientFails) =>
       /\ calls = <<>>
       /\ apyPc \in {"start", "done"}
       /\ ApyReturned => forwardAPY = ZeroForwardAPY

\* returned for a Multiple vault with strategies on a chain without oracle
C8_Witness ==
    /\ ApyReturned
    /\ chainKnown
    /\ ~oracleSet
    /\ vaultKind = "Multiple"
    /\ DOMAIN strategies # {}

(* C9 as stated: for a Multiple vault with nil or zero total assets (and at *)
(* least one strategy) exactly one strategy is queried, and the debt-ratio *)
(* APR is its APR times (1 - fee/10000) times 0.9.                         *)
C9_ExactlyOneStrategyQueried ==
    (ApyReturned /\ SetupPassed /\ vaultKind = "Multiple" /\ EmptyVault
       /\ DOMAIN strategies # {}) =>
       /\ Len(StrategyCalls) = 1
       /\ ~StrategyCalls[1].ans.err =>
            debtRatioAPR =
               Haircut(DecMul(Normalized18(StrategyCalls[1].ans.val),
                              FeeFactor(StrategyCalls[1].target[2])))

(* C9 amended: in that branch the strategies are queried one after another *)
(* until a query succeeds: every query but the last failed, no strategy is *)
(* queried twice, and the debt-ratio APR is the successful strategy's APR  *)
(* times (1 - fee/10000) times 0.9 whatever the number of strategies; when *)
(* no query succeeds every strategy was tried and the debt-ratio APR is 0. *)
C9_FirstSuccessfulStrategyOnly ==
    (ApyReturned /\ SetupPassed /\ vaultKind = "Multiple" /\ EmptyVault) =>
       LET sc == StrategyCalls
           n == Len(sc)
       IN  /\ \A i \in 1..(n - 1) : sc[i].ans.err
           /\ \A i, j \in 1..n : i # j => sc[i].target # sc[j].target
           /\ IF n > 0 /\ ~sc[n].ans.err
              THEN debtRatioAPR =
                      Haircut(DecMul(Normalized18(sc[n].ans.val), FeeFactor(sc[n].target[2])))
              ELSE /\ DecIsZero(debtRatioAPR)
                   /\ n = Cardinality(DOMAIN strategies)

\* the first strategy's query failed, the second one's APR was used
C9_Witness ==
    /\ ApyReturned
    /\ vaultKind = "Multiple"
    /\ EmptyVault
    /\ Len(StrategyCalls) = 2
    /\ StrategyCalls[1].ans.err
    /\ ~StrategyCalls[2].ans.err
    /\ ~DecIsZero(debtRatioAPR)

(* C10 as stated: for every vault, a strategy whose debt ratio is 0 or nil *)
(* adds nothing to the debt-ratio APR, which is 0.9 times the sum of what  *)
(* the strategies with a debt ratio added.                                 *)
C10_ZeroRatioAddsNothing ==
    (ApyReturned /\ SetupPassed) =>
       /\ \A s \in DOMAIN strategies : ZeroOrNilRatio(s) => DecIsZero(contrib[s])
       /\ debtRatioAPR =
             Haircut(SumContrib({t \in DOMAIN strategies : ~ZeroOrNilRatio(t)}))

(* C10 amended: unless the vault is a Multiple vault with nil or zero      *)
(* total assets (that branch does not read the debt ratio), a strategy     *)
(* whose debt ratio is 0 or nil is not queried and adds nothing; the       *)
(* others add what their own answer, ratio and fee give, and the           *)
(* debt-ratio APR is 0.9 times the sum of what those added.                *)
C10_ZeroRatioSkippedInNormalCase ==
    (ApyReturned /\ SetupPassed /\ ~(vaultKind = "Multiple" /\ EmptyVault)) =>
       /\ \A s \in DOMAIN strategies : ZeroOrNilRatio(s) =>
             DecIsZero(contrib[s]) /\ ~Queried(s)
       /\ \A t \in DOMAIN strategies : (~ZeroOrNilRatio(t) /\ vaultKind = "Multiple") =>
             /\ Queried(t)
             /\ contrib[t] =
                  IF AnswerFor(t).err THEN DecZero
                  ELSE DecMul(DecMul(Normalized18(AnswerFor(t).val), RatioShare(t)),
                              FeeFactor(t))
       /\ debtRatioAPR =
             Haircut(SumContrib({t \in DOMAIN strategies : ~ZeroOrNilRatio(t)}))

\* a normal-case vault with a zero-ratio strategy beside one that added
C10_Witness ==
    /\ ApyReturned
    /\ vaultKind = "Multiple"
    /\ ~EmptyVault
    /\ \E s, t \in DOMAIN strategies :
          /\ strategies[s].LastDebtRatio = Some(0)
          /\ ~DecIsZero(contrib[t])
    /\ ~DecIsZero(debtRatioAPR)

----------------------------------------------------------------------------
(* What C11, C12 and C17 speak of: the strategies that contribute in the   *)
(* normal case, and each one's weighted APR from its own answer            *)

\* a strategy with a debt ratio whose query succeeded
Qualifies(s) == ~ZeroOrNilRatio(s) /\ Queried(s) /\ ~AnswerFor(s).err

\* apr * (debtRatio / 10000) * (1 - performanceFee / 10000)
WeightedAPR(s) ==
    DecMul(DecMul(Normalized18(AnswerFor(s).val), RatioShare(s)), FeeFactor(s))

RECURSIVE WeightedSum(_)
WeightedSum(S) ==
    IF S = {} THEN DecZero
    ELSE LET s == CHOOSE x \in S : TRUE
         IN  DecAdd(WeightedAPR(s), WeightedSum(S \ {s}))

NormalCase == SetupPassed /\ vaultKind = "Multiple" /\ ~EmptyVault

\* debt ratios 6000 / 4000, fees 1000 / 2000, APRs 0.10 / 0.08
ExampleVault ==
    /\ DOMAIN strategies = {1, 2}
    /\ strategies[1] = [LastDebtRatio |-> Some(6000), LastPerformanceFee |-> 1000]
    /\ strategies[2] = [LastDebtRatio |-> Some(4000), LastPerformanceFee |-> 2000]
    /\ Queried(1) /\ AnswerFor(1) = Answer(1, 17)
    /\ Queried(2) /\ AnswerFor(2) = Answer(8, 16)

(* C11: for a Multiple vault with nonzero total assets the returned         *)
(* debt-ratio APR is 0.9 times the sum, over the strategies with a non-nil *)
(* nonzero debt ratio whose query succeeded, of apr * ratio/10000 *        *)
(* (1 - fee/10000), and the composite reports it; while the loop runs the  *)
(* running total is the plain sum over the strategies passed so far, so    *)
(* the 0.9 is applied once, to the total; ratios 6000/4000, fees 1000/2000 *)
(* and APRs 0.10/0.08 give 0.07164.                                        *)
C11_HaircutOnceOnWeightedSum ==
    /\ (ApyReturned /\ NormalCase) =>
          /\ \A s \in DOMAIN strategies : ~ZeroOrNilRatio(s) => Queried(s)
          /\ debtRatioAPR =
                Haircut(WeightedSum({s \in DOMAIN strategies : Qualifies(s)}))
          /\ forwardAPY.Composite.V3OracleStratRatioAPR =
                Some(ConvertFloatAPRToAPY(
                       Haircut(WeightedSum({s \in DOMAIN strategies : Qualifies(s)})), 52))
          /\ ExampleVault => debtRatioAPR = DecNorm(7164, -5)
    /\ (apyPc = "normal" /\ NormalCase) =>
          debtRatioAPR = WeightedSum({s \in ranged : Qualifies(s)})

\* the example of the claim, returned with 0.07164
C11_Witness ==
    /\ ApyReturned
    /\ NormalCase
    /\ ExampleVault
    /\ debtRatioAPR = DecNorm(7164, -5)
    /\ forwardAPY.Composite.V3OracleStratRatioAPR =
          Some(ConvertFloatAPRToAPY(DecNorm(7164, -5), 52))

\* the strategies whose GetStrategyApr call returned an error
FailedStrategies == {s \in DOMAIN strategies : Queried(s) /\ AnswerFor(s).err}

(* C12: in the normal case a strategy whose GetStrategyApr call failed has  *)
(* added nothing, and the function goes on: it returns only after the loop *)
(* has passed every strategy, the debt-ratio APR is 0.9 times the sum of   *)
(* what the other strategies added, each from its own answer, and the      *)
(* result is the full tagged TForwardAPY with all three values set.        *)
C12_FailedStrategySkippedNotAborting ==
    NormalCase =>
       /\ \A s \in FailedStrategies : DecIsZero(contrib[s])
       /\ ApyReturned =>
            /\ ranged = DOMAIN strategies
            /\ debtRatioAPR = Haircut(SumContrib((DOMAIN strategies) \ FailedStrategies))
            /\ \A t \in (DOMAIN strategies) \ FailedStrategies :
                  contrib[t] = IF Qualifies(t) THEN WeightedAPR(t) ELSE DecZero
            /\ forwardAPY.Type = "v3:onchainOracle"
            /\ forwardAPY.NetAPY # None
            /\ forwardAPY.Composite.V3OracleCurrentAPR # None
            /\ forwardAPY.Composite.V3OracleStratRatioAPR =
                  Some(ConvertFloatAPRToAPY(debtRatioAPR, 52))

\* returned after one strategy's query failed and the other one's APR counted
C12_Witness ==
    /\ ApyReturned
    /\ NormalCase
    /\ \E s \in FailedStrategies : \E t \in DOMAIN strategies :
          /\ Qualifies(t)
          /\ debtRatioAPR = Haircut(WeightedAPR(t))
          /\ ~DecIsZero(debtRatioAPR)
          /\ \E i, j \in DOMAIN calls :
                i < j /\ calls[i].target = OfStrategy(s) /\ calls[j].target = OfStrategy(t)

\* the oracle APR as the vault-level calls give it: the value of
\* GetCurrentApr when it was called and succeeded, else the value of
\* GetStrategyApr(vault, 0) when that succeeded, else zero
OracleAPRFromCalls ==
    IF Len(calls) >= 2 /\ calls[2].fn = "GetCurrentApr" /\ ~calls[2].ans.err
    THEN Normalized18(calls[2].ans.val)
    ELSE IF Len(calls) >= 1 /\ ~calls[1].ans.err
         THEN Normalized18(calls[1].ans.val)
         ELSE DecZero

(* C13: in a result returned past the three early returns the net APY is    *)
(* the compounded debt-ratio APR when ShouldUseV2APR is set and the        *)
(* compounded oracle APR otherwise; either way the composite holds the     *)
(* compounded oracle APR and the compounded debt-ratio APR, and the type   *)
(* is "v3:onchainOracle".                                                  *)
C13_NetAPYFollowsFlag ==
    (ApyReturned /\ SetupPassed) =>
       /\ oracleAPR = OracleAPRFromCalls
       /\ useV2APR => forwardAPY.NetAPY = Some(ConvertFloatAPRToAPY(debtRatioAPR, 52))
       /\ ~useV2APR => forwardAPY.NetAPY = Some(ConvertFloatAPRToAPY(OracleAPRFromCalls, 52))
       /\ forwardAPY.Composite.V3OracleCurrentAPR =
             Some(ConvertFloatAPRToAPY(OracleAPRFromCalls, 52))
       /\ forwardAPY.Composite.V3OracleStratRatioAPR =
             Some(ConvertFloatAPRToAPY(debtRatioAPR, 52))
       /\ forwardAPY.Type = "v3:onchainOracle"

\* the flag is set and the two APRs differ, both nonzero: the net APY is the
\* debt-ratio one and the composite still holds the oracle one
C13_Witness ==
    /\ ApyReturned
    /\ SetupPassed
    /\ useV2APR
    /\ ~DecIsZero(oracleAPR)
    /\ ~DecIsZero(debtRatioAPR)
    /\ oracleAPR # debtRatioAPR
    /\ forwardAPY.NetAPY = Some(ConvertFloatAPRToAPY(debtRatioAPR, 52))
    /\ forwardAPY.Composite.V3OracleCurrentAPR = Some(ConvertFloatAPRToAPY(oracleAPR, 52))

----------------------------------------------------------------------------
\* the vault and block a key of the sync.Map reads as in the reshape pass
KeyVault(key) == HexToAddress(Split(key, "-")[1])
KeyBlock(key) == ParseUint(Split(key, "-")[2])

(* C14: every record of the returned Event History stored under            *)
(* (vaultAddr, blockNumber) has BlockNumber = blockNumber and was stored   *)
(* by the goroutine of the vault with address vaultAddr, from one of that  *)
(* vault's logs; at every moment each key of the sync.Map reads back as    *)
(* the vault and block of the records it holds, and a key built from an    *)
(* address and a block number (one or several digits) splits in two and    *)
(* reads back as that address and that number.                             *)
C14_KeyRoundTrips ==
    /\ \A key \in DOMAIN asyncFeeMap :
          /\ Len(Split(key, "-")) = 2
          /\ KeyVault(key) \in vaults
          /\ \A i \in DOMAIN asyncFeeMap[key] :
                /\ asyncFeeMap[key][i].BlockNumber = KeyBlock(key)
                /\ <<KeyVault(key), asyncFeeMap[key][i]>> \in inserted
    /\ Returned =>
          /\ \A v \in DOMAIN managementFeeForVaults :
               \A b \in DOMAIN managementFeeForVaults[v] :
                  \A i \in DOMAIN managementFeeForVaults[v][b] :
                     LET r == managementFeeForVaults[v][b][i]
                     IN  /\ r.BlockNumber = b
                         /\ v \in vaults
                         /\ <<v, r>> \in inserted
                         /\ r.TxHash[1] = v
          /\ \A a \in {1, 15, 16, Pow(16, AddrHexLen) - 1} :
               \A n \in {0, 9, 10, 109, 65535} :
                  /\ Len(Split(EventKey(a, n), "-")) = 2
                  /\ KeyVault(EventKey(a, n)) = a
                  /\ KeyBlock(EventKey(a, n)) = n

\* two vaults with a record in the same block, the second vault with one in
\* another block too: four keys that differ in the address or in the block
C14_Witness ==
    /\ Returned
    /\ DOMAIN managementFeeForVaults = {1, 2}
    /\ \E b \in DOMAIN managementFeeForVaults[1] :
          /\ b \in DOMAIN managementFeeForVaults[2]
          /\ managementFeeForVaults[1][b][1].TxHash[1] = 1
          /\ managementFeeForVaults[2][b][1].TxHash[1] = 2
          /\ \E c \in DOMAIN managementFeeForVaults[2] :
                c # b /\ managementFeeForVaults[2][c][1].BlockNumber = c

QueriesOf(v) == {i \in DOMAIN queries : queries[i].vault = v}

(* C15: a call issues one log query per vault of the input set and no      *)
(* other: a vault's goroutine has issued none before its query step and    *)
(* exactly one after it, so that a returned call has issued as many        *)
(* queries as there are vaults; each query starts at the vault's own       *)
(* activation block when start is 0 and at start otherwise, and ends at    *)
(* the given end (nil: latest) for every vault.                            *)
C15_OneQueryPerVault ==
    /\ \A i \in DOMAIN queries :
          LET v == queries[i].vault
          IN  /\ v \in vaults
              /\ queries[i].opts.Start = (IF start = 0 THEN activation[v] ELSE start)
              /\ queries[i].opts.End = end
    /\ \A v \in vaults :
          Cardinality(QueriesOf(v)) = (IF taskPc[v] \in {"idle", "query"} THEN 0 ELSE 1)
    /\ ReshapeBegun =>
          /\ Len(queries) = Cardinality(vaults)
          /\ \A v \in vaults : Cardinality(QueriesOf(v)) = 1

\* start is 0 and the end is given: two vaults were queried from their own,
\* different activation blocks up to the same end
C15_Witness ==
    /\ Returned
    /\ start = 0
    /\ end # None
    /\ Len(queries) = 2
    /\ queries[1].vault # queries[2].vault
    /\ queries[1].opts.Start # queries[2].opts.Start
    /\ queries[1].opts.End = end
    /\ queries[2].opts.End = end

----------------------------------------------------------------------------
(* C16: for a vault of another kind than Multiple no GetStrategyApr call    *)
(* for a strategy is ever made and the debt-ratio APR stays zero, whatever *)
(* the strategies, their debt ratios and the total assets; the composite   *)
(* of the result reports the compounding of that zero, and neither loop is *)
(* entered.                                                                *)
C16_OnlyMultipleIsWeighted ==
    vaultKind # "Multiple" =>
       /\ StrategyCalls = <<>>
       /\ DecIsZero(debtRatioAPR)
       /\ apyPc \notin {"emptyVault", "normal"}
       /\ ranged = {}
       /\ \A s \in DOMAIN strategies : DecIsZero(contrib[s])
       /\ (ApyReturned /\ SetupPassed) =>
             forwardAPY.Composite.V3OracleStratRatioAPR =
                Some(ConvertFloatAPRToAPY(DecZero, 52))

\* a Single vault with assets and two strategies holding debt: the oracle
\* was asked about the vault only
C16_Witness ==
    /\ ApyReturned
    /\ SetupPassed
    /\ vaultKind = "Single"
    /\ totalAssets = Some(1000)
    /\ DOMAIN strategies = {1, 2}
    /\ \A s \in DOMAIN strategies : ~ZeroOrNilRatio(s)
    /\ calls # <<>>
    /\ StrategyCalls = <<>>
    /\ forwardAPY.Composite.V3OracleStratRatioAPR = Some(ConvertFloatAPRToAPY(DecZero, 52))

----------------------------------------------------------------------------
\* a <= b for decimals
DecLeq(a, b) == DecSub(b, a).m >= 0

\* the strategies whose query succeeded: the ones that add to the total
Contributors == {s \in DOMAIN strategies : Queried(s) /\ ~AnswerFor(s).err}

\* the largest APR the oracle gave for a strategy of S (S not empty)
MaxAPR(S) ==
    LET top == CHOOSE s \in S :
                  \A t \in S : DecLeq(Normalized18(AnswerFor(t).val),
                                      Normalized18(AnswerFor(s).val))
    IN  Normalized18(AnswerFor(top).val)

RECURSIVE RatioSum(_)
RatioSum(S) ==
    IF S = {} THEN 0
    ELSE LET s == CHOOSE x \in S : TRUE
         IN  (IF strategies[s].LastDebtRatio = None THEN 0
              ELSE strategies[s].LastDebtRatio[1]) + RatioSum(S \ {s})

\* the hypotheses of C17 on the vault and on the oracle's answers
WithinFullAllocation ==
    /\ RatioSum(DOMAIN strategies) <= 10000
    /\ \A s \in DOMAIN strategies : strategies[s].LastPerformanceFee \in 0..10000
    /\ \A s \in Contributors : AnswerFor(s).val.m >= 0

(* C17: when the debt ratios sum to at most 10000, the fees are within     *)
(* [0, 10000] and no strategy APR is negative, the debt-ratio APR before   *)
(* the 0.9 haircut (the running total of the normal branch, and the sum of *)
(* what the strategies added, of which the returned value is 0.9 times) is *)
(* at most the largest APR among the strategies that added to it, and zero *)
(* when none did.                                                          *)
C17_WeightedSumAtMostMaxAPR ==
    (SetupPassed /\ WithinFullAllocation) =>
       LET beforeHaircut == SumContrib(DOMAIN strategies)
       IN  /\ apyPc = "normal" => debtRatioAPR = beforeHaircut
           /\ ApyReturned => debtRatioAPR = Haircut(beforeHaircut)
           /\ IF Contributors = {}
              THEN DecIsZero(beforeHaircut)
              ELSE DecLeq(beforeHaircut, MaxAPR(Contributors))

\* the whole debt (4000 + 6000 of 10000) is allocated to two strategies
\* that both added to the total, with different APRs
C17_Witness ==
    /\ ApyReturned
    /\ NormalCase
    /\ RatioSum(DOMAIN strategies) = 10000
    /\ Contributors = {1, 2}
    /\ AnswerFor(1) # AnswerFor(2)
    /\ ~DecIsZero(debtRatioAPR)
    /\ DecLeq(SumContrib(DOMAIN strategies), MaxAPR(Contributors))

----------------------------------------------------------------------------
\* the records of block b among the first n entries vault v's stream has
\* yielded, in the order the stream yielded them (entries that fail to
\* decode left out)
RECURSIVE YieldedRecords(_, _, _)
YieldedRecords(v, b, n) ==
    IF n = 0 THEN <<>>
    ELSE LET i == stream[v][n]
         IN  IF ~chainLogs[v][i].bad /\ chainLogs[v][i].BlockNumber = b
             THEN Append(YieldedRecords(v, b, n - 1), BlockData(LogEvent(v, i)))
             ELSE YieldedRecords(v, b, n - 1)

EntryOf(m, key) == IF key \in DOMAIN m THEN m[key] ELSE <<>>

(* C18: at every moment the slice the sync.Map holds for a vault and a     *)
(* block is the sequence of that block's records in the order the vault's  *)
(* stream has yielded them so far, whatever the other goroutines did in    *)
(* between, and no key exists for another vault; the returned Event        *)
(* History holds, for each vault and block, exactly that sequence.         *)
C18_StreamOrderKept ==
    /\ \A v \in vaults : \A b \in Blocks :
          EntryOf(asyncFeeMap, EventKey(v, b)) = YieldedRecords(v, b, pos[v])
    /\ \A key \in DOMAIN asyncFeeMap :
          \E v \in vaults : \E b \in Blocks : key = EventKey(v, b)
    /\ Returned =>
          \A v \in vaults : \A b \in Blocks :
             LET recs == YieldedRecords(v, b, pos[v])
             IN  IF recs = <<>>
                 THEN v \in DOMAIN managementFeeForVaults =>
                         b \notin DOMAIN managementFeeForVaults[v]
                 ELSE /\ v \in DOMAIN managementFeeForVaults
                      /\ b \in DOMAIN managementFeeForVaults[v]
                      /\ managementFeeForVaults[v][b] = recs

\* two records of one block in stream order, stored while the other vault's
\* goroutine, queried first, stored a record of the same block
C18_Witness ==
    /\ Returned
    /\ Len(queries) = 2
    /\ queries[1].vault = 2
    /\ \E b \in Blocks :
          /\ 1 \in DOMAIN managementFeeForVaults
          /\ b \in DOMAIN managementFeeForVaults[1]
          /\ Len(managementFeeForVaults[1][b]) = 2
          /\ managementFeeForVaults[1][b][1].LogIndex < managementFeeForVaults[1][b][2].LogIndex
          /\ 2 \in DOMAIN managementFeeForVaults
          /\ b \in DOMAIN managementFeeForVaults[2]

----------------------------------------------------------------------------
(* What C19 speaks of, written without the operators of the model: the     *)
(* comma-separated pieces of a string and a user name in lower case        *)

IsPiece(s, i, j) ==
    /\ i = 1 \/ s[i - 1] = ","
    /\ j = Len(s) \/ s[j + 1] = ","
    /\ \A k \in i..j : s[k] # ","

Pieces(s) ==
    {SubSeq(s, i, j) : <<i, j>> \in {p \in (1..(Len(s) + 1)) \X (0..Len(s)) :
                                        p[2] >= p[1] - 1 /\ IsPiece(s, p[1], p[2])}}

Lowered(name) ==
    [i \in DOMAIN name |->
        IF name[i] = "A" THEN "a" ELSE IF name[i] = "B" THEN "b" ELSE name[i]]

\* the update of the last loop turn is a command / one of a listed sender
LastIsCommand == update.Message # None /\ update.Message[1].IsCommand
LastIsListed ==
    /\ LastIsCommand
    /\ Lowered(update.Message[1].From.UserName) \in Pieces(telegramWhitelistedUsers[1])

(* C19: the process has exited exactly when the last update handled is a   *)
(* restart command whose sender's user name, in lower case, is one of the  *)
(* comma-separated entries of TELEGRAM_WHITELIST, and then with code 1; a  *)
(* command of any other sender got the not-authorized reply and did not    *)
(* reach the switch; an update without message or whose message is no      *)
(* command got no reply, did not reach the switch and changed nothing.     *)
C19_ExitOnlyOnListedRestart ==
    /\ (exitCode # None) <=> (listenPc = "exited")
    /\ listenPc = "exited" =>
          /\ exitCode = Some(1)
          /\ handled > 0
          /\ telegramToken # None /\ telegramWhitelistedUsers # None /\ ~botFails
    /\ listenPc # "exited" => restartNotice = None
    /\ handled > 0 =>
          /\ (listenPc = "exited") <=>
                (LastIsListed /\ update.Message[1].Command = "restart")
          /\ reachedSwitch <=> LastIsListed
          /\ (LastIsCommand /\ ~LastIsListed) =>
                reply = Some("You are not authorized to use this bot.")
          /\ ~LastIsCommand => reply = None
    /\ handled = 0 => (reply = None /\ ~reachedSwitch)

\* after earlier updates the user "A" asked for a restart, listed as "a" in
\* the whitelist "a,b"
C19_Witness ==
    /\ listenPc = "exited"
    /\ handled >= 2
    /\ telegramWhitelistedUsers = Some(<<"a", ",", "b">>)
    /\ update.Message[1].From.UserName = <<"A">>
    /\ update.Message[1].Command = "restart"
    /\ exitCode = Some(1)

----------------------------------------------------------------------------
CallsDone == {c \in chains : callPc[c] = "done"}
NoCallRunning == \A c \in chains : callPc[c] \in {"idle", "done"}

(* C20: whenever no call of triggerInitializedStatus is under way, the     *)
(* counter is the number k of calls made so far and their status messages  *)
(* show the counts 1..k, each once, also when calls ran concurrently.      *)
C20_NoIncrementLost ==
    NoCallRunning =>
       /\ initializedCounter = Cardinality(CallsDone)
       /\ {reported[c][1].count : c \in CallsDone} =
             {FormatUint(i) : i \in 1..Cardinality(CallsDone)}

====
